---------------------------- MODULE Spec2Model ----------------------------
(***************************************************************************)
(* A state-machine model of sample/main.c: the benchmark harness (main)    *)
(* and its three kernels sieve_count_primes, matrix_mul_test and           *)
(* mandelbrot_ppm.  One action per loop-iteration or straight-line block;  *)
(* kpc is the position inside the running kernel, pc the position of main. *)
(*                                                                         *)
(* The specifications share the actions:                                   *)
(*   SpecSieve   sieve_count_primes(limit)      for limit in Limits        *)
(*   SpecMatrix  matrix_mul_test(M)             for M in MatSizes          *)
(*   SpecMandel  mandelbrot_ppm(path, w, h, mi) for w, h in Dims, mi in    *)
(*               MaxIters                                                  *)
(*   Spec        main(), with the compile-time parameters scaled down      *)
(*   SpecFair    Spec with weak fairness of the next step                  *)
(***************************************************************************)
EXTENDS Integers, Sequences, FiniteSets

\* ------------------------------------------------------------- bounds
\* Largest and (negated) smallest limit passed to sieve_count_primes.
MaxLimit == 100
NegLimit == 3
\* Largest matrix size M.
MaxM == 16
\* Image sides are 2^e for e in 0..MaxLog; with a power of two every double
\* operation of the escape loop is exact for the first iterations.
MaxLog == 3
\* Largest max-iteration argument of mandelbrot_ppm.
MaxIter == 2
\* The monotonic clock is read in whole ticks and stops advancing here.
MaxClock == 3

\* ---------------------------------------------- compile-time parameters
\* #define SIEVE_LIMIT 100000, MAT_SIZE 140, MAN_WIDTH 400, MAN_HEIGHT 300,
\* MAN_MAXITER 256: scaled down so that main's run can be enumerated.
SIEVE_LIMIT == 10
MAT_SIZE == 2
MAN_WIDTH == 4
MAN_HEIGHT == 2
MAN_MAXITER == 2

Limits == (0 - NegLimit)..MaxLimit
MatSizes == 1..MaxM
MaxIters == 1..MaxIter

RECURSIVE Pow2(_)
Pow2(e) == IF e = 0 THEN 1 ELSE 2 * Pow2(e - 1)

Dims == {Pow2(e) : e \in 0..MaxLog}

VARIABLES
    \* main
    pc, out, err, calls, exit_status, prime_count, mat_time, tstart, man_time,
    \* environment: clock, heap, kernel in progress
    clock, held, oom, kernel, kpc,
    \* sieve_count_primes
    limit, isprime, p, q, i, cnt, out_count,
    \* matrix_mul_test
    M, A, B, C, seed, mi, mk, mj, t0, out_time, checksum,
    \* mandelbrot_ppm
    width, height, maxiter, f, file, x, y, zx, zy, zs, iter

mainVars == <<pc, out, calls, exit_status, prime_count, mat_time, tstart, man_time>>
envVars == <<clock, held, oom>>
svVars == <<limit, isprime, p, q, i, cnt, out_count>>
mtVars == <<M, A, B, C, seed, mi, mk, mj, t0, out_time, checksum>>
mnVars == <<width, height, maxiter, f, file, x, y, zx, zy, zs, iter>>
vars == <<mainVars, err, envVars, kernel, kpc, svVars, mtVars, mnVars>>

\* ------------------------------------------------------- environment

\* malloc(n) for an int n converted to size_t: a negative n becomes a size
\* above PTRDIFF_MAX, which no allocator grants.
MallocSatisfiable(n) == n >= 0

\* now_seconds(): CLOCK_MONOTONIC never goes back; the reading is the clock
\* after it advanced by 0 or 1 tick since the last reading.
Ticks == {clock, IF clock < MaxClock THEN clock + 1 ELSE clock}

\* --------------------------------------------------- sieve_count_primes

\* memset(isprime, 1, n); isprime[0] = isprime[1] = 0;
SieveFlagsInit(lim) == [k \in 0..lim |-> IF k < 2 THEN 0 ELSE 1]

\* What a run that wrote past the end of its buffer may hand back.
UBCounts == {0 - 1, 0, 1}

\* line 36-37: malloc fails (the request cannot be met, or memory is short)
SieveAllocFail ==
    /\ kernel = "sieve" /\ kpc = "sv_entry"
    /\ \E short \in BOOLEAN :
          /\ (~MallocSatisfiable(limit + 1)) \/ short
          /\ oom' = (oom \/ (short /\ MallocSatisfiable(limit + 1)))
    /\ err' = Append(err, "malloc failed sieve")
    /\ out_count' = 0 - 1
    /\ kpc' = "ret"
    /\ UNCHANGED <<mainVars, clock, held, kernel, limit, isprime, p, q, i, cnt, mtVars, mnVars>>

\* line 36-40: malloc succeeds and the two leading flags fit in the buffer
SieveAllocOk ==
    /\ kernel = "sieve" /\ kpc = "sv_entry"
    /\ MallocSatisfiable(limit + 1)
    /\ limit + 1 >= 2
    /\ held' = held \cup {"isprime"}
    /\ isprime' = SieveFlagsInit(limit)
    /\ cnt' = 0
    /\ p' = 2
    /\ kpc' = "sv_outer"
    /\ UNCHANGED <<mainVars, err, clock, oom, kernel, limit, q, i, out_count, mtVars, mnVars>>

\* line 36-39 with n < 2: isprime[1] (and for n = 0 isprime[0]) lies outside
\* the n bytes obtained; the write is undefined behaviour.
SieveInitOOB ==
    /\ kernel = "sieve" /\ kpc = "sv_entry"
    /\ MallocSatisfiable(limit + 1)
    /\ limit + 1 < 2
    /\ held' = held \cup {"isprime"}
    /\ kpc' = "sv_ub"
    /\ UNCHANGED <<mainVars, err, clock, oom, kernel, svVars, mtVars, mnVars>>

\* the outcomes of the undefined write: the call returns some count, or the
\* process dies.
SieveUB ==
    /\ kernel = "sieve" /\ kpc = "sv_ub"
    /\ \/ /\ \E c \in UBCounts : out_count' = c
          /\ held' = held \ {"isprime"}
          /\ kpc' = "ret"
       \/ /\ kpc' = "crash"
          /\ UNCHANGED <<held, out_count>>
    /\ UNCHANGED <<mainVars, err, clock, oom, kernel, limit, isprime, p, q, i, cnt, mtVars, mnVars>>

\* a sieve that starts striking one multiple late
SieveFirstMultipleLate(pp) == pp * pp + pp

\* line 43: the inner loop starts at q = p*p
SieveFirstMultiple(pp) == pp * pp

\* line 41-42: for(p = 2; p*p <= limit; ++p) if(isprime[p]) ...
SieveOuter ==
    /\ kernel = "sieve" /\ kpc = "sv_outer"
    /\ IF p * p <= limit
       THEN IF isprime[p] # 0
            THEN /\ q' = SieveFirstMultiple(p)
                 /\ kpc' = "sv_inner"
                 /\ UNCHANGED <<p, i>>
            ELSE /\ p' = p + 1
                 /\ UNCHANGED <<q, i, kpc>>
       ELSE /\ i' = 2
            /\ kpc' = "sv_count"
            /\ UNCHANGED <<p, q>>
    /\ UNCHANGED <<mainVars, err, envVars, kernel, limit, isprime, cnt, out_count, mtVars, mnVars>>

\* line 43: for(q = p*p; q <= limit; q += p) isprime[q] = 0;
SieveStrike(flags, qq) == [flags EXCEPT ![qq] = 0]

SieveInner ==
    /\ kernel = "sieve" /\ kpc = "sv_inner"
    /\ IF q <= limit
       THEN /\ isprime' = SieveStrike(isprime, q)
            /\ q' = q + p
            /\ UNCHANGED <<p, kpc>>
       ELSE /\ p' = p + 1
            /\ kpc' = "sv_outer"
            /\ UNCHANGED <<isprime, q>>
    /\ UNCHANGED <<mainVars, err, envVars, kernel, limit, i, cnt, out_count, mtVars, mnVars>>

\* line 46: for(i = 2; i <= limit; ++i) if(isprime[i]) ++cnt;
SieveCount ==
    /\ kernel = "sieve" /\ kpc = "sv_count"
    /\ IF i <= limit
       THEN /\ cnt' = (IF isprime[i] # 0 THEN cnt + 1 ELSE cnt)
            /\ i' = i + 1
            /\ UNCHANGED kpc
       ELSE /\ kpc' = "sv_free"
            /\ UNCHANGED <<cnt, i>>
    /\ UNCHANGED <<mainVars, err, envVars, kernel, limit, isprime, p, q, out_count, mtVars, mnVars>>

\* line 47-48: free(isprime); *out_count = cnt;
SieveReturn ==
    /\ kernel = "sieve" /\ kpc = "sv_free"
    /\ held' = held \ {"isprime"}
    /\ out_count' = cnt
    /\ kpc' = "ret"
    /\ UNCHANGED <<mainVars, err, clock, oom, kernel, limit, isprime, p, q, i, cnt, mtVars, mnVars>>

SieveNext ==
    \/ SieveAllocFail
    \/ SieveAllocOk
    \/ SieveInitOOB
    \/ SieveUB
    \/ SieveOuter
    \/ SieveInner
    \/ SieveCount
    \/ SieveReturn

\* ------------------------------------------------------ matrix_mul_test

\* An unsigned int (32 bits) is kept as <<high 16 bits, low 16 bits>>: the
\* products of the recurrence do not fit a single model integer.
Half == 65536
Word(n) == <<n \div Half, n % Half>>

\* line 61: unsigned int seed = 123456789;
SeedInit == 123456789
\* line 63: seed * 1103515245 + 12345
LcgMul == 1103515245
LcgAdd == 12345

\* line 63, 65: seed = seed * 1103515245 + 12345, modulo 2^32
LcgNext(s) ==
    LET a == Word(LcgMul)
        low == s[2] * a[2] + LcgAdd
        mid == ((s[1] * a[2]) % Half) + ((s[2] * a[1]) % Half)
    IN  <<((low \div Half) + mid) % Half, low % Half>>

\* line 64, 66: seed % 1000 (the value before the division by 100.0)
Mod1000(s) == ((s[1] % 1000) * (Half % 1000) + s[2]) % 1000

\* an initialisation that draws B[i] before A[i]
MatInitCellSwapped(s) ==
    LET s1 == LcgNext(s)
        s2 == LcgNext(s1)
    IN  [a |-> Mod1000(s2), b |-> Mod1000(s1), c |-> 0, seed |-> s2]

\* line 63-67: one pass of the initialisation loop: advance, A[i]; advance,
\* B[i]; C[i] = 0.  A and B are held in hundredths.
MatInitCell(s) ==
    LET s1 == LcgNext(s)
        s2 == LcgNext(s1)
    IN  [a |-> Mod1000(s1), b |-> Mod1000(s2), c |-> 0, seed |-> s2]

\* an array with cell k written
Store(arr, k, v) == [n \in (DOMAIN arr) \cup {k} |-> IF n = k THEN v ELSE arr[n]]

\* a multiply that reads B transposed
MatMulCellTransposed(Cm, Am, Bm, n, ii, kk, jj) ==
    [Cm EXCEPT ![ii * n + jj] = @ + Am[ii * n + kk] * Bm[jj * n + kk]]

\* line 74-76: C[i*M + j] += A[i*M + k] * B[k*M + j]  (C in ten-thousandths)
MatMulCell(Cm, Am, Bm, n, ii, kk, jj) ==
    [Cm EXCEPT ![ii * n + jj] = @ + Am[ii * n + kk] * Bm[kk * n + jj]]

\* line 85: i += (M > 8 ? M/8 : 1)
ChecksumStride(n) == IF n > 8 THEN n \div 8 ELSE 1

\* line 84-87: checksum += C[i*M + (i % M)] for i = from, from + stride, ...
RECURSIVE ChecksumFrom(_, _, _)
ChecksumFrom(Cm, n, from) ==
    IF from < n
    THEN Cm[from * n + (from % n)] + ChecksumFrom(Cm, n, from + ChecksumStride(n))
    ELSE 0

\* line 54-59: the three malloc calls, then the test of the three pointers
MatAlloc ==
    /\ kernel = "matrix" /\ kpc = "mt_entry"
    /\ \E okA, okB, okC \in BOOLEAN :
          /\ held' = held \cup {nm \in {"A", "B", "C"} :
                                    \/ nm = "A" /\ okA
                                    \/ nm = "B" /\ okB
                                    \/ nm = "C" /\ okC}
          /\ oom' = (oom \/ ~(okA /\ okB /\ okC))
          /\ IF okA /\ okB /\ okC
             THEN /\ seed' = Word(SeedInit)
                  /\ mi' = 0
                  /\ kpc' = "mt_init"
                  /\ UNCHANGED <<err, out_time>>
             ELSE /\ err' = Append(err, "malloc failed matrix")
                  /\ out_time' = 0 - 1
                  /\ kpc' = "ret"
                  /\ UNCHANGED <<seed, mi>>
    /\ UNCHANGED <<mainVars, clock, kernel, svVars, M, A, B, C, mk, mj, t0, checksum, mnVars>>

\* line 62-68: for(i = 0; i < n; i++) { ... }, n = M*M
MatInit ==
    /\ kernel = "matrix" /\ kpc = "mt_init"
    /\ mi < M * M
    /\ LET cell == MatInitCell(seed)
       IN  /\ seed' = cell.seed
           /\ A' = Store(A, mi, cell.a)
           /\ B' = Store(B, mi, cell.b)
           /\ C' = Store(C, mi, cell.c)
    /\ mi' = mi + 1
    /\ UNCHANGED <<mainVars, err, envVars, kernel, kpc, svVars, M, mk, mj, t0, out_time, checksum, mnVars>>

\* line 70: double t0 = now_seconds(); and the entry of the triple loop
MatStartClock ==
    /\ kernel = "matrix" /\ kpc = "mt_init"
    /\ mi >= M * M
    /\ \E t \in Ticks : clock' = t /\ t0' = t
    /\ mi' = 0 /\ mk' = 0 /\ mj' = 0
    /\ kpc' = "mt_mul"
    /\ UNCHANGED <<mainVars, err, held, oom, kernel, svVars, M, A, B, C, seed, out_time, checksum, mnVars>>

\* line 72-79: one pass of the innermost loop, then the loop counters in
\* i-k-j order
MatMul ==
    /\ kernel = "matrix" /\ kpc = "mt_mul"
    /\ mi < M
    /\ C' = MatMulCell(C, A, B, M, mi, mk, mj)
    /\ IF mj + 1 < M
       THEN mj' = mj + 1 /\ UNCHANGED <<mk, mi>>
       ELSE /\ mj' = 0
            /\ IF mk + 1 < M
               THEN mk' = mk + 1 /\ UNCHANGED mi
               ELSE mk' = 0 /\ mi' = mi + 1
    /\ UNCHANGED <<mainVars, err, envVars, kernel, kpc, svVars, M, A, B, seed, t0, out_time, checksum, mnVars>>

\* line 80-81: double t1 = now_seconds(); *out_time = t1 - t0;
MatStopClock ==
    /\ kernel = "matrix" /\ kpc = "mt_mul"
    /\ mi >= M
    /\ \E t1 \in Ticks : clock' = t1 /\ out_time' = t1 - t0
    /\ kpc' = "mt_sum"
    /\ UNCHANGED <<mainVars, err, held, oom, kernel, svVars, M, A, B, C, seed, mi, mk, mj, t0, checksum, mnVars>>

\* line 84-92: the checksum, its line on stdout, free(A); free(B); free(C);
MatReturn ==
    /\ kernel = "matrix" /\ kpc = "mt_sum"
    /\ checksum' = ChecksumFrom(C, M, 0)
    /\ out' = Append(out, [kind |-> "checksum", a |-> checksum', b |-> 0, c |-> 0])
    /\ held' = held \ {"A", "B", "C"}
    /\ kpc' = "ret"
    /\ UNCHANGED <<pc, calls, exit_status, prime_count, mat_time, tstart, man_time, err, clock, oom,
                   kernel, svVars, M, A, B, C, seed, mi, mk, mj, t0, out_time, mnVars>>

MatrixNext ==
    \/ MatAlloc
    \/ MatInit
    \/ MatStartClock
    \/ MatMul
    \/ MatStopClock
    \/ MatReturn

\* ------------------------------------------------------- mandelbrot_ppm

\* printf's %d of a non-negative int: its decimal digits as ASCII bytes
RECURSIVE Dec(_)
Dec(n) == IF n < 10 THEN <<48 + n>> ELSE Dec(n \div 10) \o <<48 + (n % 10)>>

\* line 98: fprintf(f, "P6\n%d %d\n255\n", width, height)
Header(w, h) == <<80, 54, 10>> \o Dec(w) \o <<32>> \o Dec(h) \o <<10, 50, 53, 53, 10>>

\* The coordinates are dyadic rationals when width and height are powers of
\* two, so the doubles of line 102-109 hold them exactly; they are kept here
\* as integer numerators over a power-of-two scale.
Larger(a, b) == IF a > b THEN a ELSE b
CScale(w, h) == 4 * Larger(w, h)

\* line 102: cx = (x - 0.5*width) * (3.5/width) - 0.5, times CScale
CxNum(xx, w, h) == (2 * xx - w) * 7 * (CScale(w, h) \div (4 * w)) - (CScale(w, h) \div 2)
\* line 103: cy = (y - 0.5*height) * (2.0/height), times CScale
CyNum(yy, w, h) == (2 * yy - h) * (CScale(w, h) \div h)

\* the scale of z after one more squaring: z = 0 is held over 1, z = c over
\* CScale, every later z over the square of the scale before
NextScale(s, w, h) == IF s = 1 THEN CScale(w, h) ELSE s * s

\* line 106: zx*zx + zy*zy <= 4.0
NormLE4(a, b, s) == a * a + b * b <= 4 * s * s

\* line 107: nx = zx*zx - zy*zy + cx, over NextScale
NextZx(a, b, s, xx, w, h) ==
    (a * a - b * b) + CxNum(xx, w, h) * (NextScale(s, w, h) \div CScale(w, h))
\* line 108: ny = 2.0*zx*zy + cy, over NextScale
NextZy(a, b, s, yy, w, h) ==
    2 * a * b + CyNum(yy, w, h) * (NextScale(s, w, h) \div CScale(w, h))

\* a colouring without the test for iter == maxiter
PixelColorNoBlack(it, maxit) ==
    LET c == (255 * it) \div maxit
    IN  <<c % 256, (c * 3) % 256, (c * 7) % 256>>

\* line 113-120: the three bytes of a pixel from the loop's final iter
PixelColor(it, maxit) ==
    IF it = maxit
    THEN <<0, 0, 0>>
    ELSE LET c == (255 * it) \div maxit
         IN  <<c % 256, (c * 3) % 256, (c * 7) % 256>>

\* a writer that ends every pixel with a newline
WritePixelNewline(bytes, col) == bytes \o col \o <<10>>

\* line 121: fwrite(col, 1, 3, f)
WritePixel(bytes, col) == bytes \o col

\* line 96-97: fopen fails
MandelOpenFail ==
    /\ kernel = "mandel" /\ kpc = "mn_entry"
    /\ f' = "null"
    /\ err' = Append(err, "Failed to open for writing")
    /\ kpc' = "ret"
    /\ UNCHANGED <<mainVars, envVars, kernel, svVars, mtVars,
                   width, height, maxiter, file, x, y, zx, zy, zs, iter>>

\* line 96-98: fopen succeeds; the header; y = 0, x = 0
MandelOpen ==
    /\ kernel = "mandel" /\ kpc = "mn_entry"
    /\ f' = "open"
    /\ file' = Header(width, height)
    /\ y' = 0 /\ x' = 0
    /\ kpc' = "mn_pixel"
    /\ UNCHANGED <<mainVars, err, envVars, kernel, svVars, mtVars,
                   width, height, maxiter, zx, zy, zs, iter>>

\* line 100-105: the tests of the two for loops; zx = zy = 0, iter = 0
MandelPixel ==
    /\ kernel = "mandel" /\ kpc = "mn_pixel"
    /\ y < height
    /\ IF x < width
       THEN /\ zx' = 0 /\ zy' = 0 /\ zs' = 1 /\ iter' = 0
            /\ kpc' = "mn_iter"
            /\ UNCHANGED <<x, y>>
       ELSE /\ x' = 0 /\ y' = y + 1
            /\ UNCHANGED <<zx, zy, zs, iter, kpc>>
    /\ UNCHANGED <<mainVars, err, envVars, kernel, svVars, mtVars,
                   width, height, maxiter, f, file>>

\* line 106-111: one pass of the while loop.  The test is read with
\* iter < maxiter first: the norm is needed only while iter < maxiter.
MandelIter ==
    /\ kernel = "mandel" /\ kpc = "mn_iter"
    /\ iter < maxiter /\ NormLE4(zx, zy, zs)
    /\ zx' = NextZx(zx, zy, zs, x, width, height)
    /\ zy' = NextZy(zx, zy, zs, y, width, height)
    /\ zs' = NextScale(zs, width, height)
    /\ iter' = iter + 1
    /\ UNCHANGED <<mainVars, err, envVars, kernel, kpc, svVars, mtVars,
                   width, height, maxiter, f, file, x, y>>

\* line 112-121: the while loop ends; the colour; fwrite; x++
MandelWrite ==
    /\ kernel = "mandel" /\ kpc = "mn_iter"
    /\ ~(iter < maxiter /\ NormLE4(zx, zy, zs))
    /\ file' = WritePixel(file, PixelColor(iter, maxiter))
    /\ x' = x + 1
    /\ kpc' = "mn_pixel"
    /\ UNCHANGED <<mainVars, err, envVars, kernel, svVars, mtVars,
                   width, height, maxiter, f, y, zx, zy, zs, iter>>

\* line 124: fclose(f)
MandelClose ==
    /\ kernel = "mandel" /\ kpc = "mn_pixel"
    /\ y >= height
    /\ f' = "closed"
    /\ kpc' = "ret"
    /\ UNCHANGED <<mainVars, err, envVars, kernel, svVars, mtVars,
                   width, height, maxiter, file, x, y, zx, zy, zs, iter>>

MandelNext ==
    \/ MandelOpenFail
    \/ MandelOpen
    \/ MandelPixel
    \/ MandelIter
    \/ MandelWrite
    \/ MandelClose

\* ------------------------------------------------------------------ main

Line(k, va, vb, vc) == [kind |-> k, a |-> va, b |-> vb, c |-> vc]

\* a harness that gives up on the remaining stages after a failed one
AfterStageAbort(stage, result) ==
    IF result < 0
    THEN "Summary"
    ELSE CASE stage = "Sieve" -> "SieveDone"
           [] stage = "MatrixMultiply" -> "MatrixDone"
           [] stage = "Mandelbrot" -> "Summary"

\* line 135-155: main never tests what a kernel handed back; after each
\* stage control falls through to the next one
AfterStage(stage, result) ==
    CASE stage = "Sieve" -> "SieveDone"
      [] stage = "MatrixMultiply" -> "MatrixDone"
      [] stage = "Mandelbrot" -> "Summary"

\* line 128-135: the banner, the parameters, "[1/3]", t0, the sieve call
MainCallSieve ==
    /\ pc = "Start"
    /\ out' = out \o <<Line("start", 0, 0, 0),
                       Line("params", SIEVE_LIMIT, MAT_SIZE, MAN_WIDTH),
                       Line("[1/3]", SIEVE_LIMIT, 0, 0)>>
    /\ \E t \in Ticks : clock' = t /\ tstart' = t
    /\ prime_count' = 0
    /\ calls' = Append(calls, "Sieve")
    /\ kernel' = "sieve" /\ kpc' = "sv_entry" /\ limit' = SIEVE_LIMIT
    /\ pc' = "Sieve"
    /\ UNCHANGED <<exit_status, mat_time, man_time, err, held, oom,
                   isprime, p, q, i, cnt, out_count, mtVars, mnVars>>

\* line 135-137: the sieve has returned; t1; "Found %d primes ..."
MainSieveDone ==
    /\ pc = "Sieve" /\ kpc = "ret"
    /\ prime_count' = out_count
    /\ \E t1 \in Ticks :
          /\ clock' = t1
          /\ out' = Append(out, Line("found", out_count, SIEVE_LIMIT, t1 - tstart))
    /\ kernel' = "none" /\ kpc' = "idle"
    /\ pc' = AfterStage("Sieve", out_count)
    /\ UNCHANGED <<calls, exit_status, mat_time, tstart, man_time, err, held, oom,
                   svVars, mtVars, mnVars>>

\* line 140-143: "[2/3]", mat_time = 0.0, t2, the matrix call
MainCallMatrix ==
    /\ pc = "SieveDone"
    /\ out' = Append(out, Line("[2/3]", MAT_SIZE, MAT_SIZE, 0))
    /\ mat_time' = 0
    /\ \E t2 \in Ticks : clock' = t2 /\ tstart' = t2
    /\ calls' = Append(calls, "MatrixMultiply")
    /\ kernel' = "matrix" /\ kpc' = "mt_entry" /\ M' = MAT_SIZE
    /\ pc' = "MatrixMultiply"
    /\ UNCHANGED <<exit_status, prime_count, man_time, err, held, oom, svVars,
                   A, B, C, seed, mi, mk, mj, t0, out_time, checksum, mnVars>>

\* line 143-145: the multiply has returned; t3; "Matrix multiply took ..."
MainMatrixDone ==
    /\ pc = "MatrixMultiply" /\ kpc = "ret"
    /\ mat_time' = out_time
    /\ \E t3 \in Ticks :
          /\ clock' = t3
          /\ out' = Append(out, Line("took", out_time, t3 - tstart, 0))
    /\ kernel' = "none" /\ kpc' = "idle"
    /\ pc' = AfterStage("MatrixMultiply", out_time)
    /\ UNCHANGED <<calls, exit_status, prime_count, tstart, man_time, err, held, oom,
                   svVars, mtVars, mnVars>>

\* line 148-151: "[3/3]", t4, the mandelbrot call
MainCallMandel ==
    /\ pc = "MatrixDone"
    /\ out' = Append(out, Line("[3/3]", MAN_WIDTH, MAN_HEIGHT, 0))
    /\ \E t4 \in Ticks : clock' = t4 /\ tstart' = t4
    /\ calls' = Append(calls, "Mandelbrot")
    /\ kernel' = "mandel" /\ kpc' = "mn_entry"
    /\ width' = MAN_WIDTH /\ height' = MAN_HEIGHT /\ maxiter' = MAN_MAXITER
    /\ pc' = "Mandelbrot"
    /\ UNCHANGED <<exit_status, prime_count, mat_time, man_time, err, held, oom, svVars, mtVars,
                   f, file, x, y, zx, zy, zs, iter>>

\* line 151-153: the rasterizer has returned; t5; "Mandelbrot wrote ..."
MainMandelDone ==
    /\ pc = "Mandelbrot" /\ kpc = "ret"
    /\ \E t5 \in Ticks :
          /\ clock' = t5
          /\ man_time' = t5 - tstart
          /\ out' = Append(out, Line("wrote", t5 - tstart, 0, 0))
    /\ kernel' = "none" /\ kpc' = "idle"
    /\ pc' = AfterStage("Mandelbrot", 0)
    /\ UNCHANGED <<calls, exit_status, prime_count, mat_time, tstart, err, held, oom,
                   svVars, mtVars, mnVars>>

\* line 155-157: the summary, return 0
MainSummary ==
    /\ pc = "Summary"
    /\ out' = out \o <<Line("done", 0, 0, 0),
                       Line("summary", prime_count, mat_time, man_time)>>
    /\ calls' = Append(calls, "Summary")
    /\ exit_status' = 0
    /\ pc' = "End"
    /\ UNCHANGED <<prime_count, mat_time, tstart, man_time, err, envVars, kernel, kpc,
                   svVars, mtVars, mnVars>>

\* --------------------------------------------------------- specifications

\* Before a function is entered its locals hold nothing the code reads.
MainIdle ==
    /\ out = <<>> /\ calls = <<>> /\ exit_status = 0 - 1
    /\ prime_count = 0 /\ mat_time = 0 /\ tstart = 0 /\ man_time = 0
    /\ err = <<>> /\ clock = 0 /\ held = {} /\ oom = FALSE
SieveIdle ==
    /\ isprime = <<>> /\ p = 0 /\ q = 0 /\ i = 0 /\ cnt = 0 /\ out_count = 0
MatrixIdle ==
    /\ A = <<>> /\ B = <<>> /\ C = <<>> /\ seed = <<0, 0>>
    /\ mi = 0 /\ mk = 0 /\ mj = 0 /\ t0 = 0 /\ out_time = 0 /\ checksum = 0
MandelIdle ==
    /\ f = "none" /\ file = <<>> /\ x = 0 /\ y = 0
    /\ zx = 0 /\ zy = 0 /\ zs = 1 /\ iter = 0

\* main(): the whole program
Init ==
    /\ pc = "Start" /\ kernel = "none" /\ kpc = "idle"
    /\ MainIdle
    /\ limit = 0 /\ SieveIdle
    /\ M = 0 /\ MatrixIdle
    /\ width = 0 /\ height = 0 /\ maxiter = 0 /\ MandelIdle

\* With SIEVE_LIMIT >= 1 the sieve's buffer holds its two leading flags, so
\* the out-of-bounds steps of the sieve are no steps of main's run.
Next ==
    \/ MainCallSieve
    \/ SieveAllocFail
    \/ SieveAllocOk
    \/ SieveOuter
    \/ SieveInner
    \/ SieveCount
    \/ SieveReturn
    \/ MainSieveDone
    \/ MainCallMatrix
    \/ MatAlloc
    \/ MatInit
    \/ MatStartClock
    \/ MatMul
    \/ MatStopClock
    \/ MatReturn
    \/ MainMatrixDone
    \/ MainCallMandel
    \/ MandelOpenFail
    \/ MandelOpen
    \/ MandelPixel
    \/ MandelIter
    \/ MandelWrite
    \/ MandelClose
    \/ MainMandelDone
    \/ MainSummary

Spec == Init /\ [][Next]_vars

\* The program is one sequential thread: a step that can be taken is taken.
SpecFair == Spec /\ WF_vars(Next)

\* sieve_count_primes(limit, &out_count) alone
InitSieve ==
    /\ pc = "Kernel" /\ kernel = "sieve" /\ kpc = "sv_entry"
    /\ MainIdle
    /\ limit \in Limits /\ SieveIdle
    /\ M = 0 /\ MatrixIdle
    /\ width = 0 /\ height = 0 /\ maxiter = 0 /\ MandelIdle

SpecSieve == InitSieve /\ [][SieveNext]_vars

\* matrix_mul_test(M, &out_time) alone
InitMatrix ==
    /\ pc = "Kernel" /\ kernel = "matrix" /\ kpc = "mt_entry"
    /\ MainIdle
    /\ limit = 0 /\ SieveIdle
    /\ M \in MatSizes /\ MatrixIdle
    /\ width = 0 /\ height = 0 /\ maxiter = 0 /\ MandelIdle

SpecMatrix == InitMatrix /\ [][MatrixNext]_vars

\* mandelbrot_ppm(path, width, height, maxiter) alone
InitMandel ==
    /\ pc = "Kernel" /\ kernel = "mandel" /\ kpc = "mn_entry"
    /\ MainIdle
    /\ limit = 0 /\ SieveIdle
    /\ M = 0 /\ MatrixIdle
    /\ width \in Dims /\ height \in Dims /\ maxiter \in MaxIters /\ MandelIdle

SpecMandel == InitMandel /\ [][MandelNext]_vars

\* ================================================================ claims

Range(sq) == {sq[n] : n \in 1..Len(sq)}

\* ---- C1
IsPrime(n) == n >= 2 /\ \A d \in 2..(n - 1) : n % d # 0
PrimeCount(lim) == Cardinality({n \in 2..lim : IsPrime(n)})

\* C1: for every limit >= 2, when the allocation succeeds,
\* sieve_count_primes ends with isprime[k] set exactly for the primes k of
\* 0..limit (isprime[0] and isprime[1] cleared) and hands back the number of
\* primes in [2, limit]: 4 for limit 10 and 25 for limit 100.
C1_SieveCountsPrimes ==
    (kernel = "sieve" /\ limit >= 2 /\ err = <<>> /\ kpc \in {"sv_free", "ret"}) =>
        /\ DOMAIN isprime = 0..limit
        /\ isprime[0] = 0 /\ isprime[1] = 0
        /\ \A k \in 0..limit : (isprime[k] # 0) <=> IsPrime(k)
        /\ kpc = "ret" => /\ out_count = PrimeCount(limit)
                          /\ limit = 10 => out_count = 4
                          /\ limit = 100 => out_count = 25

C1_Witness ==
    kernel = "sieve" /\ kpc = "ret" /\ err = <<>> /\ limit = 100 /\ out_count = 25

\* ---- C2
\* C2: for every limit < 2 (1, 0 and every negative value) the count handed
\* back is 0 (memory not being short).
C2_BelowTwoIsZero ==
    (kernel = "sieve" /\ kpc = "ret" /\ limit < 2 /\ ~oom) => out_count = 0

\* ---- C3
Stages == <<"Sieve", "MatrixMultiply", "Mandelbrot", "Summary">>
IsSummary(ln) == ln.kind = "summary"
StagesInOrder ==
    /\ \E n \in 0..Len(Stages) : calls = SubSeq(Stages, 1, n)
    /\ pc = "End" => /\ calls = Stages
                     /\ Len(SelectSeq(out, IsSummary)) = 1
                     /\ out[Len(out)].kind = "summary"
                     /\ exit_status = 0
    /\ pc # "End" => exit_status # 0

\* C3: whichever kernels fail, main runs Sieve, MatrixMultiply, Mandelbrot
\* once each in that order, then prints the summary and ends with exit
\* status 0; every run gets there.
C3_StagesAlwaysRun == [](StagesInOrder) /\ <>(pc = "End")

C3_Witness ==
    /\ pc = "End" /\ calls = Stages /\ exit_status = 0
    /\ err = <<"malloc failed sieve", "malloc failed matrix", "Failed to open for writing">>

\* ---- C4
FailMessage(k) ==
    CASE k = "sieve" -> "malloc failed sieve"
      [] k = "matrix" -> "malloc failed matrix"
      [] k = "mandel" -> "Failed to open for writing"
KernelFailed == FailMessage(kernel) \in Range(err)
\* what the caller holds when the kernel is back: the out-parameter of the
\* sieve and of the multiply; mandelbrot_ppm is void and has none
KernelResult ==
    CASE kernel = "sieve" -> <<out_count>>
      [] kernel = "matrix" -> <<out_time>>
      [] kernel = "mandel" -> <<>>
\* what a successful call can hand back: a count, an elapsed time, nothing
SuccessResults(k) ==
    CASE k = "sieve" -> {<<n>> : n \in 0..SIEVE_LIMIT}
      [] k = "matrix" -> {<<n>> : n \in 0..MaxClock}
      [] k = "mandel" -> {<<>>}
SuccessResultsCover ==
    (kpc = "ret" /\ ~KernelFailed) => KernelResult \in SuccessResults(kernel)

\* C4: a kernel that failed hands main a result that no successful call of
\* the same kernel can hand back.
C4_FailureIsDistinct ==
    (kpc = "ret" /\ KernelFailed) => KernelResult \notin SuccessResults(kernel)

\* ---- C5
\* C5: when a kernel is back in main, no buffer it obtained is still held.
C5_BuffersReleased == (kpc \in {"ret", "idle"}) => held = {}

\* ---- C6
\* C6: no "Matrix multiply took" line and no summary line shows a negative
\* elapsed time of the multiply.
C6_NoNegativeTiming ==
    \A n \in 1..Len(out) :
        /\ out[n].kind = "took" => out[n].a >= 0
        /\ out[n].kind = "summary" => out[n].b >= 0

\* ---- C7
RECURSIVE RefDot(_, _, _, _, _, _)
RefDot(Am, Bm, n, ii, jj, kk) ==
    IF kk = 0 THEN 0
    ELSE RefDot(Am, Bm, n, ii, jj, kk - 1) + Am[ii * n + (kk - 1)] * Bm[(kk - 1) * n + jj]
Cells(n) == 0..(n * n - 1)
MatFinished == kernel = "matrix" /\ kpc \in {"mt_sum", "ret"} /\ out_time >= 0

\* C7: the C of the i-k-j loop equals, cell by cell, the reference product
\* sum over k of A[i,k]*B[k,j] of the same A and B (size 4 and every other
\* size of MatSizes); when the loop starts A and B are complete and C is 0.
C7_MultiplyMatchesReference ==
    /\ (kernel = "matrix" /\ kpc = "mt_mul" /\ mi = 0 /\ mk = 0 /\ mj = 0) =>
          /\ DOMAIN A = Cells(M) /\ DOMAIN B = Cells(M) /\ DOMAIN C = Cells(M)
          /\ \A n \in Cells(M) : C[n] = 0
    /\ MatFinished =>
          \A ii \in 0..(M - 1) : \A jj \in 0..(M - 1) :
              C[ii * M + jj] = RefDot(A, B, M, ii, jj, M)

C7_Witness ==
    /\ MatFinished /\ kpc = "ret" /\ M = 4
    /\ C[0] = RefDot(A, B, 4, 0, 0, 4) /\ C[0] > 0
    /\ checksum = 4516064

\* ---- C8
RECURSIVE Digits(_)
Digits(n) == IF n < 10 THEN 1 ELSE 1 + Digits(n \div 10)
RECURSIVE Pow10(_)
Pow10(e) == IF e = 0 THEN 1 ELSE 10 * Pow10(e - 1)
\* the decimal text of n, digit by digit from the left, as ASCII
DecimalText(n) == [d \in 1..Digits(n) |-> 48 + ((n \div Pow10(Digits(n) - d)) % 10)]
\* "P6\n{w} {h}\n255\n"
HeaderText(w, h) ==
    <<80, 54, 10>> \o DecimalText(w) \o <<32>> \o DecimalText(h) \o <<10, 50, 53, 53, 10>>
\* len("P6\n{width} {height}\n255\n")
HeaderLen(w, h) == 3 + Digits(w) + 1 + Digits(h) + 5
\* the iteration count the escape loop ends with for pixel (xx, yy)
RECURSIVE EscapeIter(_, _, _, _, _, _, _, _, _)
EscapeIter(a, b, s, it, xx, yy, w, h, maxit) ==
    IF it < maxit /\ NormLE4(a, b, s)
    THEN EscapeIter(NextZx(a, b, s, xx, w, h), NextZy(a, b, s, yy, w, h),
                    NextScale(s, w, h), it + 1, xx, yy, w, h, maxit)
    ELSE it
PixelAt(xx, yy) == PixelColor(EscapeIter(0, 0, 1, 0, xx, yy, width, height, maxiter), maxiter)
\* the bytes of the n-th pixel of the file (n from 0), after a header of hl bytes
PixelBytes(hl, n) == SubSeq(file, hl + 3 * n + 1, hl + 3 * n + 3)
PixelsWritten == y * width + x

\* C8: once the destination is open the file is the header followed by
\* exactly 3 bytes per pixel written so far, the newest being those of pixel
\* (x-1, y); when render returns the file holds
\* len("P6\n{width} {height}\n255\n") + width*height*3 bytes: the header, then
\* the pixels row after row from the top, each row from the left, and
\* nothing else.  For width 400 and height 300 the header is
\* "P6\n400 300\n255\n".
C8_ImageLayout ==
    /\ Header(400, 300) = <<80, 54, 10, 52, 48, 48, 32, 51, 48, 48, 10, 50, 53, 53, 10>>
    /\ (kernel = "mandel" /\ f \in {"open", "closed"}) =>
          LET hl == HeaderLen(width, height) IN
          /\ SubSeq(file, 1, hl) = HeaderText(width, height)
          /\ Len(file) = hl + 3 * PixelsWritten
          /\ (kpc = "mn_pixel" /\ x > 0) =>
                PixelBytes(hl, PixelsWritten - 1) = PixelAt(x - 1, y)
          /\ f = "closed" =>
                /\ Len(file) = hl + width * height * 3
                /\ \A yy \in 0..(height - 1) : \A xx \in 0..(width - 1) :
                      PixelBytes(hl, yy * width + xx) = PixelAt(xx, yy)

C8_Witness ==
    /\ kernel = "mandel" /\ f = "closed" /\ kpc = "ret"
    /\ width = 4 /\ height = 2 /\ maxiter = 2
    /\ file = <<80, 54, 10, 52, 32, 50, 10, 50, 53, 53, 10,
                127, 125, 121, 0, 0, 0, 0, 0, 0, 0, 0, 0,
                127, 125, 121, 0, 0, 0, 0, 0, 0, 0, 0, 0>>

\* ---- C9
\* a pixel has just been written: iter, zx, zy are those its loop ended with
PixelJustWritten == kernel = "mandel" /\ kpc = "mn_pixel" /\ x > 0
LastPixel == SubSeq(file, Len(file) - 2, Len(file))
Shade(it, maxit) == (255 * it) \div maxit
Tint(c) == <<c % 256, (3 * c) % 256, (7 * c) % 256>>

\* C9 as stated: the bytes are (0,0,0) if |z|^2 never exceeded 4 (the loop
\* ran to max_iterations); otherwise, the point having escaped at count iter,
\* they are (c mod 256, 3c mod 256, 7c mod 256), c = floor(255*iter/maxiter).
C9_ColourByEscape ==
    PixelJustWritten =>
        IF NormLE4(zx, zy, zs)
        THEN iter = maxiter /\ LastPixel = <<0, 0, 0>>
        ELSE LastPixel = Tint(Shade(iter, maxiter))

\* C9 amended: the bytes are (0,0,0) whenever the loop ended with
\* iter = max_iterations, also when |z|^2 exceeded 4 on that last pass;
\* otherwise the point escaped at count iter < max_iterations and the bytes
\* are (c mod 256, 3c mod 256, 7c mod 256), c = floor(255*iter/maxiter).
C9_ColourByIter ==
    PixelJustWritten =>
        /\ 0 < iter /\ iter <= maxiter
        /\ IF iter = maxiter
           THEN LastPixel = <<0, 0, 0>>
           ELSE /\ ~NormLE4(zx, zy, zs)
                /\ LastPixel = Tint(Shade(iter, maxiter))

\* a point that left the disc on the very last pass and is black
C9_Witness ==
    /\ PixelJustWritten /\ iter = maxiter /\ ~NormLE4(zx, zy, zs)
    /\ LastPixel = <<0, 0, 0>>

\* ---- C10
\* the generator state n advances after state s; the advances are split in
\* two halves, the first worked out before the second starts, which keeps
\* the evaluation shallow
RECURSIVE LcgAfter(_, _)
LcgAfter(s, n) ==
    IF n = 0 THEN s
    ELSE IF n = 1 THEN LcgNext(s)
    ELSE LET h == LcgAfter(s, n \div 2)
         IN  IF h[1] >= 0 THEN LcgAfter(h, n - (n \div 2)) ELSE h
\* s(n): the generator state after n advances from the seed
LcgState(n) == LcgAfter(Word(SeedInit), n)
RefA(k) == Mod1000(LcgState(2 * k + 1))
RefB(k) == Mod1000(LcgState(2 * k + 2))
RECURSIVE RefChecksum(_, _)
RefChecksum(n, from) ==
    IF from < n
    THEN RefDot([k \in Cells(n) |-> RefA(k)], [k \in Cells(n) |-> RefB(k)],
                n, from, from % n, n)
         + RefChecksum(n, from + (IF n > 8 THEN n \div 8 ELSE 1))
    ELSE 0

\* C10: the generator advances once per assignment, A then B, cell after
\* cell: A[k] = s(2k+1) mod 1000 and B[k] = s(2k+2) mod 1000 (hundredths, so
\* every value is a multiple of 0.01 in [0, 9.99]) and C[k] = 0; the first
\* states are those of s(n+1) = (s(n)*1103515245 + 12345) mod 2^32 from
\* 123456789; A, B and the checksum depend on the size alone.
C10_InitSequence ==
    /\ LcgState(1) = <<3536, 59434>> /\ LcgState(2) = <<49963, 54811>>
    /\ (kernel = "matrix" /\ kpc = "mt_init") =>
          /\ seed = LcgState(2 * mi)
          /\ DOMAIN A = 0..(mi - 1) /\ DOMAIN B = 0..(mi - 1) /\ DOMAIN C = 0..(mi - 1)
          /\ mi > 0 => /\ A[mi - 1] = RefA(mi - 1) /\ B[mi - 1] = RefB(mi - 1)
                       /\ C[mi - 1] = 0
                       /\ A[mi - 1] \in 0..999 /\ B[mi - 1] \in 0..999
                       /\ A[0] = 730 /\ B[0] = 979
          /\ mi > 1 => A[1] = 128 /\ B[1] = 577
    /\ (kernel = "matrix" /\ kpc = "mt_mul" /\ mi = 0 /\ mk = 0 /\ mj = 0) =>
          \A k \in Cells(M) : A[k] = RefA(k) /\ B[k] = RefB(k) /\ C[k] = 0
    /\ (MatFinished /\ kpc = "ret") =>
          /\ \A k \in Cells(M) : A[k] = RefA(k) /\ B[k] = RefB(k)
          /\ checksum = RefChecksum(M, 0)

\* size 16 is sampled at stride 2: rows 0, 2, ..., 14
C10_Witness ==
    /\ MatFinished /\ kpc = "ret" /\ M = 16
    /\ A[255] = RefA(255) /\ B[255] = RefB(255)
    /\ checksum = 34953896

=============================================================================
